---------------------------- MODULE Spec2Model ----------------------------
(***************************************************************************)
(* Model of the WaniKani mock provider (src/mock_wanikani_api.py) and of   *)
(* the Streamlit dashboard (src/wanikani_dashboard/app.py).                *)
(*                                                                         *)
(* The two programs are independent processes.  Each part of the model has *)
(* its own specification over its own variables:                           *)
(*   SpecProvider  signup / login / revision-session of the mock provider  *)
(*   SpecFetch     one call of the paginated fetch client                  *)
(*   SpecSrs       build_srs_dataframe applied to a list of assignments    *)
(*   SpecSchedule  build_review_schedule applied to a list of blocks       *)
(*   SpecView      the dashboard script, rerun by Streamlit on every        *)
(*                 interaction with a widget                               *)
(***************************************************************************)
EXTENDS Integers, Sequences, FiniteSets, TLC

VARIABLES
    users,      \* mock_wanikani_api.users  : username -> stored hash
    tokens,     \* mock_wanikani_api.tokens : token -> username
    last,       \* the last HTTP exchange of the provider (request and response)
    issued,     \* history: every access_token a 200 login response carried,
                \* with the username of that login request
    f_pc,       \* fetch_assignments: "loop", "returned" or "raised"
    f_url,      \* fetch_assignments: local `url` (0: None or empty)
    f_data,     \* fetch_assignments: local `data`
    f_requested,\* history: the URLs _get was called with, in order
    f_responses,\* history: the pages the server answered with, in order
    h_pc,       \* aggregation: "idle", "input" (arguments chosen) or "done"
    h_in,       \* aggregation: the argument (assignments, or review blocks)
    h_now,      \* build_review_schedule: dt.datetime.now(utc), in minutes
    h_out,      \* aggregation: the DataFrame returned, as its rows
    c_token,    \* st.session_state["token"], a sequence of characters
    c_page,     \* the sidebar radio's selection
    c_pc,       \* position of the running script; "end" between two runs
    c_call,     \* while c_pc = "load": the index in LoadCalls of the next call
    c_state,    \* view: "Unauthenticated", "Loading", "Ready" or "Error"
    c_widgets,  \* what the current run has put on the page so far
    c_ids,      \* whether all_ids holds an id
    c_calls,    \* history: the fetch calls of the current run, in order
    c_trigger,  \* history: the interaction that started the current run
    c_prev      \* history: the view that interaction was made in

provVars == <<users, tokens, last, issued>>
fetchVars == <<f_pc, f_url, f_data, f_requested, f_responses>>

histVars == <<h_pc, h_in, h_now, h_out>>

viewVars == <<c_token, c_page, c_pc, c_call, c_state, c_widgets, c_ids, c_calls,
              c_trigger, c_prev>>

vars == <<provVars, fetchVars, histVars, viewVars>>

-----------------------------------------------------------------------------
(* Bounds of the provider model *)

\* number of distinct values secrets.token_hex(16) is drawn from
MaxTokens == 2
\* number of distinct bcrypt salts
MaxSalts == 2

\* payload fields are strings; "" is the empty string, which signup treats
\* like a missing field (`not username`) and which login looks up or
\* verifies like any other string
Usernames == {"", "alice", "bob"}
Passwords == {"", "pw1", "pw2"}
Salts == 1..MaxSalts
TokenPool == 1..MaxTokens

\* the bearer tokens a client may present: the mintable ones and 0, a token
\* no login ever returns (forged or mistyped)
BearerTokens == 0..MaxTokens

HTTP_200_OK == 200
HTTP_400_BAD_REQUEST == 400
HTTP_401_UNAUTHORIZED == 401

EmptyMap == [x \in {} |-> 0]

-----------------------------------------------------------------------------
(* passlib CryptContext(schemes=["bcrypt"]) *)

\* pwd_context.hash(password): a salted hash; the salt is drawn at random
pwd_hash(password, salt) == <<"$2b$", salt, password>>

\* pwd_context.verify(password, hashed): recomputes the hash with the salt
\* stored in `hashed` and compares
pwd_verify(password, hashed) == pwd_hash(password, hashed[2]) = hashed

-----------------------------------------------------------------------------
(* POST /signup.  A response is the HTTP status with the JSON body's keys;  *)
(* an HTTPException carries `detail`.                                       *)

signup_overwrites(us, username, password, salt) ==
    IF username = "" \/ password = ""
    THEN [users |-> us,
          resp |-> [status |-> HTTP_400_BAD_REQUEST,
                    detail |-> "username and password required"]]
    ELSE [users |-> [u \in DOMAIN us \cup {username} |->
                        IF u = username THEN pwd_hash(password, salt) ELSE us[u]],
          resp |-> [status |-> HTTP_200_OK, message |-> "account created"]]

signup(us, username, password, salt) ==
    IF username = "" \/ password = ""
    THEN [users |-> us,
          resp |-> [status |-> HTTP_400_BAD_REQUEST,
                    detail |-> "username and password required"]]
    ELSE IF username \in DOMAIN us
    THEN [users |-> us,
          resp |-> [status |-> HTTP_400_BAD_REQUEST,
                    detail |-> "user already exists"]]
    ELSE [users |-> [u \in DOMAIN us \cup {username} |->
                        IF u = username THEN pwd_hash(password, salt) ELSE us[u]],
          resp |-> [status |-> HTTP_200_OK, message |-> "account created"]]

Signup(username, password) ==
    \E salt \in Salts :
        LET r == signup(users, username, password, salt) IN
        /\ users' = r.users
        /\ last' = [op |-> "signup",
                    req |-> [username |-> username, password |-> password],
                    resp |-> r.resp]
        /\ UNCHANGED <<tokens, issued>>
        /\ UNCHANGED <<fetchVars, histVars, viewVars>>

-----------------------------------------------------------------------------
(* POST /login *)

login_no_verify(us, tk, username, password, token) ==
    IF username \notin DOMAIN us
    THEN [tokens |-> tk,
          resp |-> [status |-> HTTP_401_UNAUTHORIZED, detail |-> "invalid credentials"]]
    ELSE [tokens |-> [t \in DOMAIN tk \cup {token} |->
                        IF t = token THEN username ELSE tk[t]],
          resp |-> [status |-> HTTP_200_OK, access_token |-> token]]

login(us, tk, username, password, token) ==
    IF username \notin DOMAIN us \/ ~pwd_verify(password, us[username])
    THEN [tokens |-> tk,
          resp |-> [status |-> HTTP_401_UNAUTHORIZED, detail |-> "invalid credentials"]]
    ELSE [tokens |-> [t \in DOMAIN tk \cup {token} |->
                        IF t = token THEN username ELSE tk[t]],
          resp |-> [status |-> HTTP_200_OK, access_token |-> token]]

\* secrets.token_hex(16) is 128 random bits: a token minted by a successful
\* login is one that was not minted before in this process.  The token is
\* drawn only after the credential check passed.
Login(username, password) ==
    \E token \in TokenPool :
        LET r == login(users, tokens, username, password, token) IN
        /\ r.resp.status = HTTP_200_OK => token \notin DOMAIN tokens
        /\ tokens' = r.tokens
        /\ last' = [op |-> "login",
                    req |-> [username |-> username, password |-> password],
                    resp |-> r.resp]
        /\ issued' = IF r.resp.status = HTTP_200_OK
                     THEN [t \in DOMAIN issued \cup {r.resp.access_token} |->
                             IF t = r.resp.access_token THEN username ELSE issued[t]]
                     ELSE issued
        /\ UNCHANGED users
        /\ UNCHANGED <<fetchVars, histVars, viewVars>>

-----------------------------------------------------------------------------
(* GET /v2/revision-session, with its dependency get_current_user *)

get_current_user_nocheck(tk, token) ==
    IF token \notin DOMAIN tk
    THEN [status |-> HTTP_200_OK, user |-> "None"]
    ELSE [status |-> HTTP_200_OK, user |-> tk[token]]

get_current_user(tk, token) ==
    IF token \notin DOMAIN tk
    THEN [status |-> HTTP_401_UNAUTHORIZED, detail |-> "Invalid token"]
    ELSE [status |-> HTTP_200_OK, user |-> tk[token]]

\* the subject random.choice picks plays no part in the provider's state
revision_session(tk, token) == get_current_user(tk, token)

RevisionSession(token) ==
    /\ last' = [op |-> "revision_session",
                req |-> [bearer |-> token],
                resp |-> revision_session(tokens, token)]
    /\ UNCHANGED <<users, tokens, issued>>
    /\ UNCHANGED <<fetchVars, histVars, viewVars>>

-----------------------------------------------------------------------------
InitProvider ==
    /\ users = EmptyMap
    /\ tokens = EmptyMap
    /\ issued = EmptyMap
    /\ last = [op |-> "none"]
    /\ f_pc = "idle"
    /\ f_url = 0
    /\ f_data = <<>>
    /\ f_requested = <<>>
    /\ f_responses = <<>>
    /\ h_pc = "idle"
    /\ h_in = <<>>
    /\ h_now = 0
    /\ h_out = <<>>
    /\ c_token = <<>>
    /\ c_page = "Dashboard"
    /\ c_pc = "idle"
    /\ c_call = 1
    /\ c_state = "Unauthenticated"
    /\ c_widgets = {}
    /\ c_ids = FALSE
    /\ c_calls = <<>>
    /\ c_trigger = "none"
    /\ c_prev = "none"

DoSignup == \E u \in Usernames, p \in Passwords : Signup(u, p)
DoLogin == \E u \in Usernames, p \in Passwords : Login(u, p)
DoRevisionSession == \E t \in BearerTokens : RevisionSession(t)

NextProvider ==
    \/ DoSignup
    \/ DoLogin
    \/ DoRevisionSession

SpecProvider == InitProvider /\ [][NextProvider]_vars

-----------------------------------------------------------------------------
(* Claims about the provider, checked under SpecProvider *)

LoginFails(username, password) ==
    username \notin DOMAIN users \/ ~pwd_verify(password, users[username])

\* C1: a login whose username is not registered or whose password does not
\* match the stored hash is answered 401 Unauthorized, carries no token, and
\* leaves the tokens map and the users map as they were.
C1_FailedLoginChangesNothing ==
    [][\A u \in Usernames, p \in Passwords :
          (Login(u, p) /\ LoginFails(u, p)) =>
              /\ last'.resp.status = HTTP_401_UNAUTHORIZED
              /\ "access_token" \notin DOMAIN last'.resp
              /\ tokens' = tokens
              /\ users' = users]_vars

\* C1 witness: a registered user logged in with a wrong password and was
\* refused while another token was live.
C1_Witness ==
    /\ last.op = "login"
    /\ last.req.username \in DOMAIN users
    /\ ~pwd_verify(last.req.password, users[last.req.username])
    /\ last.resp.status = HTTP_401_UNAUTHORIZED
    /\ DOMAIN tokens # {}

\* C2 (as stated): signup of a taken username fails with Conflict (409), of an
\* empty username or password with BadRequest (400), a status distinct from
\* Conflict; both leave users unchanged; otherwise exactly one entry is added
\* and the call succeeds.
C2_Original ==
    [][\A u \in Usernames, p \in Passwords :
          Signup(u, p) =>
              IF u = "" \/ p = ""
              THEN last'.resp.status = HTTP_400_BAD_REQUEST /\ users' = users
              ELSE IF u \in DOMAIN users
              THEN /\ last'.resp.status = 409
                   /\ last'.resp.status # HTTP_400_BAD_REQUEST
                   /\ users' = users
              ELSE /\ last'.resp.status = HTTP_200_OK
                   /\ DOMAIN users' = DOMAIN users \cup {u}
                   /\ \A v \in DOMAIN users : users'[v] = users[v]]_vars

\* C2 (amended): signup fails with status 400 both when the username is taken
\* (detail "user already exists") and when username or password is empty
\* (detail "username and password required"); the two failures differ only in
\* their detail message.  Both leave users unchanged, so a stored hash is
\* never overwritten; otherwise exactly one entry is added for the username,
\* holding a hash that verifies the password, and the call succeeds.
C2_SignupOutcomes ==
    [][\A u \in Usernames, p \in Passwords :
          Signup(u, p) =>
              IF u = "" \/ p = ""
              THEN /\ last'.resp.status = HTTP_400_BAD_REQUEST
                   /\ last'.resp.detail = "username and password required"
                   /\ users' = users
              ELSE IF u \in DOMAIN users
              THEN /\ last'.resp.status = HTTP_400_BAD_REQUEST
                   /\ last'.resp.detail = "user already exists"
                   /\ users' = users
              ELSE /\ last'.resp.status = HTTP_200_OK
                   /\ DOMAIN users' = DOMAIN users \cup {u}
                   /\ pwd_verify(p, users'[u])
                   /\ \A v \in DOMAIN users : users'[v] = users[v]]_vars

\* C2 witness: a signup for an already registered username, with another
\* password than the registered one, was refused.
C2_Witness ==
    /\ last.op = "signup"
    /\ last.resp.status = HTTP_400_BAD_REQUEST
    /\ last.req.username \in DOMAIN users
    /\ last.req.password # ""
    /\ ~pwd_verify(last.req.password, users[last.req.username])

\* C3: revision-session succeeds exactly when the bearer token was returned
\* by an earlier successful login, and then reports the username of that
\* login; for every other token it answers 401 and changes no provider state.
C3_TokenValidIffIssued ==
    [][\A t \in BearerTokens :
          RevisionSession(t) =>
              /\ users' = users
              /\ tokens' = tokens
              /\ IF t \in DOMAIN issued
                 THEN /\ last'.resp.status = HTTP_200_OK
                      /\ last'.resp.user = issued[t]
                 ELSE /\ last'.resp.status = HTTP_401_UNAUTHORIZED
                      /\ "user" \notin DOMAIN last'.resp]_vars

\* C3 witness: two users hold tokens, and the token of the first login is
\* accepted after the later login and reported under its own username.
C3_Witness ==
    /\ last.op = "revision_session"
    /\ last.resp.status = HTTP_200_OK
    /\ \E t \in DOMAIN issued : t # last.req.bearer /\ issued[t] # last.resp.user

-----------------------------------------------------------------------------
(* Paginated fetch client: fetch_assignments and fetch_available_lessons   *)
(* are the same loop and differ in their first URL only.                   *)

\* number of URLs the server knows
MaxUrls == 2
\* largest number of items on one page
MaxPageItems == 2
\* cap on the requests of one call (the loop itself has no cap)
MaxRequests == 3

Urls == 1..MaxUrls
\* next_url of a page: a URL, or 0 when it is None, missing or empty
NextUrls == 0..MaxUrls
\* f"{API_BASE}assignments?subject_types={subject_type}"
StartUrl == 1

\* the items of the k-th page served, n of them; each item is its own value
page_items(k, n) == [i \in 1..n |-> <<k, i>>]

\* what _get may come back with: a JSON page, a JSON body without "pages"
\* (as the mock provider answers), or a non-2xx status (raise_for_status)
Responses(k) ==
    [kind : {"ok"}, data : {page_items(k, n) : n \in 0..MaxPageItems},
     next_url : NextUrls]
    \cup {[kind |-> "no_pages", data |-> page_items(k, 1), next_url |-> 0],
          [kind |-> "http_error", data |-> <<>>, next_url |-> 0]}

\* `while url:`
loop_always(url) == TRUE

loop_continues(url) == url # 0

\* data.extend(result["data"])
extend_front(data, items) == items \o data

extend(data, items) == data \o items

InitFetch ==
    /\ f_pc = "loop"
    /\ f_url = StartUrl
    /\ f_data = <<>>
    /\ f_requested = <<>>
    /\ f_responses = <<>>
    /\ users = EmptyMap
    /\ tokens = EmptyMap
    /\ issued = EmptyMap
    /\ last = [op |-> "none"]
    /\ h_pc = "idle"
    /\ h_in = <<>>
    /\ h_now = 0
    /\ h_out = <<>>
    /\ c_token = <<>>
    /\ c_page = "Dashboard"
    /\ c_pc = "idle"
    /\ c_call = 1
    /\ c_state = "Unauthenticated"
    /\ c_widgets = {}
    /\ c_ids = FALSE
    /\ c_calls = <<>>
    /\ c_trigger = "none"
    /\ c_prev = "none"

\* one iteration of the loop that _get answers with a page
FetchPage ==
    /\ f_pc = "loop"
    /\ loop_continues(f_url)
    /\ Len(f_requested) < MaxRequests
    /\ \E r \in Responses(Len(f_requested) + 1) :
        /\ r.kind = "ok"
        /\ f_requested' = Append(f_requested, f_url)
        /\ f_responses' = Append(f_responses, r)
        /\ f_data' = extend(f_data, r.data)
        /\ f_url' = r.next_url
        /\ f_pc' = "loop"
    /\ UNCHANGED <<provVars, histVars, viewVars>>

\* one iteration in which _get raises HTTPError, or result["pages"] raises
\* KeyError: the exception leaves the function and `data` is lost
FetchRaise ==
    /\ f_pc = "loop"
    /\ loop_continues(f_url)
    /\ Len(f_requested) < MaxRequests
    /\ \E r \in Responses(Len(f_requested) + 1) :
        /\ r.kind # "ok"
        /\ f_requested' = Append(f_requested, f_url)
        /\ f_responses' = Append(f_responses, r)
        /\ f_data' = <<>>
        /\ f_url' = f_url
        /\ f_pc' = "raised"
    /\ UNCHANGED <<provVars, histVars, viewVars>>

\* `return data`
FetchReturn ==
    /\ f_pc = "loop"
    /\ ~loop_continues(f_url)
    /\ f_pc' = "returned"
    /\ UNCHANGED <<f_url, f_data, f_requested, f_responses>>
    /\ UNCHANGED <<provVars, histVars, viewVars>>

NextFetch ==
    \/ FetchPage
    \/ FetchRaise
    \/ FetchReturn

SpecFetch == InitFetch /\ [][NextFetch]_vars

-----------------------------------------------------------------------------
(* Claims about the paginated fetch, checked under SpecFetch *)

RECURSIVE ConcatPages(_)
ConcatPages(rs) ==
    IF rs = <<>> THEN <<>>
    ELSE ConcatPages(SubSeq(rs, 1, Len(rs) - 1)) \o rs[Len(rs)].data

\* C5: over a chain of successful pages the fetch requests the pages one at a
\* time in chain order (the first URL, then each page's next_url), returns
\* the items of all pages in page order and in-page order, and stops at the
\* first page without next_url, after which it requests nothing.
C5_PagesConcatenatedInOrder ==
    /\ [](f_pc \in {"loop", "returned"} =>
            /\ f_data = ConcatPages(f_responses)
            /\ Len(f_requested) = Len(f_responses)
            /\ \A i \in 1..Len(f_requested) :
                  f_requested[i] = IF i = 1 THEN StartUrl
                                   ELSE f_responses[i - 1].next_url
            /\ \A i \in 1..(Len(f_responses) - 1) : f_responses[i].next_url # 0)
    /\ [](f_pc = "returned" =>
            /\ f_responses # <<>>
            /\ f_responses[Len(f_responses)].next_url = 0)
    /\ [][f_pc = "returned" => UNCHANGED fetchVars]_vars

\* C5 witness: pages of 2, 2 and 1 items were fetched and the call returned
\* the 5 items.
C5_Witness ==
    /\ f_pc = "returned"
    /\ Len(f_responses) = 3
    /\ Len(f_responses[1].data) = 2
    /\ Len(f_responses[2].data) = 2
    /\ Len(f_responses[3].data) = 1
    /\ f_data = <<<<1, 1>>, <<1, 2>>, <<2, 1>>, <<2, 2>>, <<3, 1>>>>

\* C6: within one call the fetch never requests a URL it has already
\* requested, so a next_url pointing back at a visited page cannot make it
\* loop.
C6_NoUrlRequestedTwice ==
    \A i, j \in 1..Len(f_requested) : i # j => f_requested[i] # f_requested[j]

-----------------------------------------------------------------------------
(* build_srs_dataframe.  A dict is the sequence of its (key, value) pairs  *)
(* in insertion order, which is the order keys() and values() give.        *)

\* largest number of assignments passed to build_srs_dataframe
MaxAssignments == 3

\* `stages`: stage number -> label (accents dropped)
stages ==
    <<"Lecon", "Apprenti 1", "Apprenti 2", "Apprenti 3", "Apprenti 4",
      "Guru 1", "Guru 2", "Maitre", "Eclaire", "Brule">>

\* an assignment: with a stage in or out of 0..9, without "srs_stage", or
\* without "data" at all
Assignments ==
    [id : {1}, data : [subject_id : {1}, srs_stage : -1..10]]
    \cup {[id |-> 1, data |-> [subject_id |-> 1]], [id |-> 1]}

\* a.get("data", {}).get("srs_stage", 0)
srs_stage(a) ==
    IF "data" \notin DOMAIN a THEN 0
    ELSE IF "srs_stage" \notin DOMAIN a.data THEN 0
    ELSE a.data.srs_stage

HasStage(a) == "data" \in DOMAIN a /\ "srs_stage" \in DOMAIN a.data

\* stages.get(stage, "Autre")
stage_name(stage) ==
    IF stage \in 0..9 THEN stages[stage + 1] ELSE "Autre"

\* counts[name] = counts.get(name, 0) + 1
count_set_one(counts, name) ==
    IF \E i \in 1..Len(counts) : counts[i][1] = name
    THEN [i \in 1..Len(counts) |->
            IF counts[i][1] = name THEN <<name, 1>> ELSE counts[i]]
    ELSE Append(counts, <<name, 1>>)

count_one(counts, name) ==
    IF \E i \in 1..Len(counts) : counts[i][1] = name
    THEN [i \in 1..Len(counts) |->
            IF counts[i][1] = name THEN <<name, counts[i][2] + 1>> ELSE counts[i]]
    ELSE Append(counts, <<name, 1>>)

RECURSIVE count_all(_, _)
count_all(counts, assignments) ==
    IF assignments = <<>> THEN counts
    ELSE count_all(count_one(counts, stage_name(srs_stage(Head(assignments)))),
                   Tail(assignments))

\* the DataFrame with columns "SRS" and "Nombre"
build_srs_dataframe(assignments) ==
    LET counts == count_all([i \in 1..Len(stages) |-> <<stages[i], 0>>], assignments)
    IN [SRS |-> [i \in 1..Len(counts) |-> counts[i][1]],
        Nombre |-> [i \in 1..Len(counts) |-> counts[i][2]]]

RECURSIVE SeqsUpTo(_, _)
SeqsUpTo(S, n) ==
    IF n = 0 THEN {<<>>}
    ELSE LET shorter == SeqsUpTo(S, n - 1)
         IN shorter \cup {Append(q, x) : q \in shorter, x \in S}

InitSrs ==
    /\ h_pc = "input"
    /\ h_in \in SeqsUpTo(Assignments, MaxAssignments)
    /\ h_now = 0
    /\ h_out = <<>>
    /\ users = EmptyMap
    /\ tokens = EmptyMap
    /\ issued = EmptyMap
    /\ last = [op |-> "none"]
    /\ f_pc = "idle"
    /\ f_url = 0
    /\ f_data = <<>>
    /\ f_requested = <<>>
    /\ f_responses = <<>>
    /\ c_token = <<>>
    /\ c_page = "Dashboard"
    /\ c_pc = "idle"
    /\ c_call = 1
    /\ c_state = "Unauthenticated"
    /\ c_widgets = {}
    /\ c_ids = FALSE
    /\ c_calls = <<>>
    /\ c_trigger = "none"
    /\ c_prev = "none"

BuildSrs ==
    /\ h_pc = "input"
    /\ h_out' = build_srs_dataframe(h_in)
    /\ h_pc' = "done"
    /\ UNCHANGED <<h_in, h_now>>
    /\ UNCHANGED <<provVars, fetchVars, viewVars>>

NextSrs == BuildSrs

SpecSrs == InitSrs /\ [][NextSrs]_vars

-----------------------------------------------------------------------------
(* Claims about the stage histogram, checked under SpecSrs *)

RECURSIVE SumSeq(_)
SumSeq(q) == IF q = <<>> THEN 0 ELSE Head(q) + SumSeq(Tail(q))

HasUnknownStage(assignments) ==
    \E i \in 1..Len(assignments) : srs_stage(assignments[i]) \notin 0..9

\* C4 (as stated): for every list of assignments, also with stages missing or
\* outside 0..9, the labels are exactly the 10 canonical stage names in
\* canonical order, every count is >= 0 and the counts sum to the input size.
C4_Original ==
    h_pc = "done" =>
        /\ h_out.SRS = stages
        /\ \A i \in 1..Len(h_out.Nombre) : h_out.Nombre[i] >= 0
        /\ SumSeq(h_out.Nombre) = Len(h_in)

\* C4 (amended): the labels are the 10 canonical stage names in canonical
\* order, followed by the one label "Autre" exactly when some assignment has
\* a stage outside 0..9; every count is >= 0 and the counts sum to the input
\* size.
C4_LabelsAndSum ==
    h_pc = "done" =>
        /\ h_out.SRS = IF HasUnknownStage(h_in) THEN Append(stages, "Autre")
                       ELSE stages
        /\ Len(h_out.Nombre) = Len(h_out.SRS)
        /\ \A i \in 1..Len(h_out.Nombre) : h_out.Nombre[i] >= 0
        /\ SumSeq(h_out.Nombre) = Len(h_in)

\* C4 witness: a histogram built from an assignment without a stage, one of
\* stage 0 and one of stage 10: two fall into "Lecon", one into "Autre".
C4_Witness ==
    /\ h_pc = "done"
    /\ Len(h_in) = 3
    /\ \E i \in 1..3 : ~HasStage(h_in[i])
    /\ \E i \in 1..3 : HasStage(h_in[i]) /\ srs_stage(h_in[i]) = 0
    /\ \E i \in 1..3 : srs_stage(h_in[i]) = 10
    /\ h_out.Nombre[1] = 2
    /\ Len(h_out.SRS) = 11
    /\ h_out.SRS[11] = "Autre"
    /\ h_out.Nombre[11] = 1

-----------------------------------------------------------------------------
(* build_review_schedule.  Instants are minutes on the UTC time line.      *)

\* largest number of review blocks in the summary
MaxBlocks == 2
\* largest number of subject ids in one review block
MaxIds == 2

MinutesPerHour == 60
\* dt.timedelta(hours=24)
WindowHours == 24

\* the instants `now` is drawn from: on the hour, and 15 and 45 minutes past
Nows == {600, 615, 645}

\* where a block lies relative to `now`: just before, at `now`, 1 h and
\* 1 h 30 min later, at the end of the window, and just after it
Offsets == {-1, 0, 60, 90, 1440, 1441}

\* "available_at": an ISO-8601 string ending in Z, a string fromisoformat
\* rejects, or None / "" / no key
Timestamps(now) ==
    {[kind |-> "utc", minutes |-> now + o] : o \in Offsets}
    \cup {[kind |-> "malformed"], [kind |-> "missing"]}

ReviewBlocks(now) ==
    [available_at : Timestamps(now),
     subject_ids : {[i \in 1..n |-> i] : n \in 0..MaxIds}]

\* dt.datetime.fromisoformat(available_at_str.replace("Z", "+00:00")); the
\* result is [ok |-> FALSE] where the code takes `continue`
parse_available_at(ts) ==
    IF ts.kind = "utc" THEN [ok |-> TRUE, instant |-> ts.minutes]
    ELSE [ok |-> FALSE]

\* now <= available_at <= tomorrow
in_window_exclusive(now, available_at) ==
    now < available_at /\ available_at < now + WindowHours * MinutesPerHour

in_window(now, available_at) ==
    now <= available_at /\ available_at <= now + WindowHours * MinutesPerHour

\* available_at.replace(minute=0, second=0, microsecond=0)
truncate_hour(available_at) == available_at - (available_at % MinutesPerHour)

\* hours[hour] = hours.get(hour, 0) + len(subject_ids)
add_hour(hours, hour, n) ==
    IF \E i \in 1..Len(hours) : hours[i][1] = hour
    THEN [i \in 1..Len(hours) |->
            IF hours[i][1] = hour THEN <<hour, hours[i][2] + n>> ELSE hours[i]]
    ELSE Append(hours, <<hour, n>>)

RECURSIVE collect_hours(_, _, _)
collect_hours(hours, now, reviews) ==
    IF reviews = <<>> THEN hours
    ELSE LET review_block == Head(reviews)
             parsed == parse_available_at(review_block.available_at)
         IN IF parsed.ok /\ in_window(now, parsed.instant)
            THEN collect_hours(add_hour(hours, truncate_hour(parsed.instant),
                                        Len(review_block.subject_ids)),
                               now, Tail(reviews))
            ELSE collect_hours(hours, now, Tail(reviews))

\* df.sort_values("Heure"): insertion of each row into the sorted rows
RECURSIVE insert_row(_, _)
insert_row(rows, row) ==
    IF rows = <<>> THEN <<row>>
    ELSE IF row[1] < Head(rows)[1] THEN <<row>> \o rows
    ELSE <<Head(rows)>> \o insert_row(Tail(rows), row)

RECURSIVE sort_values(_)
sort_values(rows) ==
    IF rows = <<>> THEN <<>>
    ELSE insert_row(sort_values(SubSeq(rows, 1, Len(rows) - 1)), rows[Len(rows)])

\* the rows (Heure, Nombre) of the DataFrame; no rows when `hours` is empty
build_review_schedule(reviews, now) ==
    sort_values(collect_hours(<<>>, now, reviews))

InitSchedule ==
    /\ h_pc = "input"
    /\ h_now \in Nows
    /\ h_in \in SeqsUpTo(ReviewBlocks(h_now), MaxBlocks)
    /\ h_out = <<>>
    /\ users = EmptyMap
    /\ tokens = EmptyMap
    /\ issued = EmptyMap
    /\ last = [op |-> "none"]
    /\ f_pc = "idle"
    /\ f_url = 0
    /\ f_data = <<>>
    /\ f_requested = <<>>
    /\ f_responses = <<>>
    /\ c_token = <<>>
    /\ c_page = "Dashboard"
    /\ c_pc = "idle"
    /\ c_call = 1
    /\ c_state = "Unauthenticated"
    /\ c_widgets = {}
    /\ c_ids = FALSE
    /\ c_calls = <<>>
    /\ c_trigger = "none"
    /\ c_prev = "none"

BuildSchedule ==
    /\ h_pc = "input"
    /\ h_out' = build_review_schedule(h_in, h_now)
    /\ h_pc' = "done"
    /\ UNCHANGED <<h_in, h_now>>
    /\ UNCHANGED <<provVars, fetchVars, viewVars>>

NextSchedule == BuildSchedule

SpecSchedule == InitSchedule /\ [][NextSchedule]_vars

-----------------------------------------------------------------------------
(* Claims about the review schedule, checked under SpecSchedule *)

\* the blocks of h_in the window keeps
KeptBlocks ==
    {i \in 1..Len(h_in) :
        /\ h_in[i].available_at.kind = "utc"
        /\ h_now <= h_in[i].available_at.minutes
        /\ h_in[i].available_at.minutes <= h_now + 24 * 60}

\* the hour an instant lies in: the largest multiple of 60 not after it
HourOf(t) == CHOOSE h \in (t - 59)..t : h % 60 = 0

RECURSIVE SumIds(_)
SumIds(I) ==
    IF I = {} THEN 0
    ELSE LET i == CHOOSE j \in I : TRUE
         IN Len(h_in[i].subject_ids) + SumIds(I \ {i})

\* C10: the schedule has a bucket exactly for the hours some block of
\* [now, now+24h] truncates to; a bucket's count is the sum of the numbers of
\* subject ids of the kept blocks of that hour; blocks outside the window
\* give no bucket and no count; buckets are in ascending hour order.
C10_ScheduleBuckets ==
    h_pc = "done" =>
        /\ {h_out[k][1] : k \in 1..Len(h_out)}
              = {HourOf(h_in[i].available_at.minutes) : i \in KeptBlocks}
        /\ \A k \in 1..Len(h_out) :
              h_out[k][2] = SumIds({i \in KeptBlocks :
                               HourOf(h_in[i].available_at.minutes) = h_out[k][1]})
        /\ \A k \in 1..(Len(h_out) - 1) : h_out[k][1] < h_out[k + 1][1]

\* C10 witness: blocks at now+1h with 2 ids and now+1h30m with 1 id lie in
\* the same hour and give one bucket of 3.
C10_Witness ==
    /\ h_pc = "done"
    /\ Len(h_in) = 2
    /\ h_in[1].available_at = [kind |-> "utc", minutes |-> h_now + 60]
    /\ Len(h_in[1].subject_ids) = 2
    /\ h_in[2].available_at = [kind |-> "utc", minutes |-> h_now + 90]
    /\ Len(h_in[2].subject_ids) = 1
    /\ h_out = <<<<truncate_hour(h_now + 60), 3>>>>

-----------------------------------------------------------------------------
(* The dashboard script.  Streamlit runs the script from its first line    *)
(* when the session opens and again after every interaction with a widget  *)
(* of the page; st.stop() and the end of the script end a run.             *)

\* longest text typed into the token field
MaxTokenLen == 2

Pages == {"Dashboard", "Lecons", "Exercices"}

\* the texts the user may type into the token field
TokenInputs == SeqsUpTo({" ", "w"}, MaxTokenLen)

\* token_input.strip()
RECURSIVE lstrip(_)
lstrip(str) ==
    IF str # <<>> /\ Head(str) = " " THEN lstrip(Tail(str)) ELSE str

RECURSIVE rstrip(_)
rstrip(str) ==
    IF str # <<>> /\ str[Len(str)] = " "
    THEN rstrip(SubSeq(str, 1, Len(str) - 1)) ELSE str

strip(str) == rstrip(lstrip(str))

\* the fetches of the data loading block, in the order of the script
LoadCalls ==
    <<"fetch_assignments(kanji)", "fetch_assignments(vocabulary)",
      "fetch_available_lessons", "fetch_subjects", "fetch_summary">>

\* how a fetch call ends: it returns, _get raises requests.HTTPError, or
\* another exception leaves it (a connection error, a KeyError on the body)
Results == {"ok", "HTTPError", "Exception"}

DashboardWidgets ==
    {"metrics", "charts", "tables", "exercise", "exercise_error", "reveal"}

\* the except clauses: what st.error shows
error_widget(result) ==
    IF result = "HTTPError" THEN "error_token_invalide" ELSE "error_exception"

\* where the script goes after call number `call` ended with `result`: the
\* next call, the aggregation after the last, or the except clause
after_call_ignoring_failure(call, result) ==
    IF call < Len(LoadCalls) THEN [pc |-> "load", call |-> call + 1]
    ELSE [pc |-> "aggregate", call |-> call]

after_call(call, result) ==
    IF result # "ok" THEN [pc |-> "except", call |-> call]
    ELSE IF call < Len(LoadCalls) THEN [pc |-> "load", call |-> call + 1]
    ELSE [pc |-> "aggregate", call |-> call]

\* the sidebar is drawn by every run, before the authentication block
SidebarOnly == {"radio"}

InitView ==
    /\ c_token = <<>>
    /\ c_page = "Dashboard"
    /\ c_pc = "start"
    /\ c_call = 1
    /\ c_state = "Unauthenticated"
    /\ c_widgets = {}
    /\ c_ids = FALSE
    /\ c_calls = <<>>
    /\ c_trigger = "open"
    /\ c_prev = "none"
    /\ users = EmptyMap
    /\ tokens = EmptyMap
    /\ issued = EmptyMap
    /\ last = [op |-> "none"]
    /\ f_pc = "idle"
    /\ f_url = 0
    /\ f_data = <<>>
    /\ f_requested = <<>>
    /\ f_responses = <<>>
    /\ h_pc = "idle"
    /\ h_in = <<>>
    /\ h_now = 0
    /\ h_out = <<>>

Rerun(trigger) ==
    /\ c_pc' = "start"
    /\ c_trigger' = trigger
    /\ c_prev' = c_state
    /\ UNCHANGED <<c_state, c_widgets, c_ids, c_calls, c_call>>

\* lines 207-227: title, sidebar, authentication block
ScriptTop ==
    /\ c_pc = "start"
    /\ c_calls' = <<>>
    /\ c_ids' = FALSE
    /\ c_call' = 1
    /\ IF c_token = <<>>
       THEN /\ c_state' = "Unauthenticated"
            /\ c_widgets' = SidebarOnly \cup {"form"}
            /\ c_pc' = "end"
       ELSE /\ c_state' = "Loading"
            /\ c_widgets' = SidebarOnly
            /\ c_pc' = "load"
    /\ UNCHANGED <<c_token, c_page, c_trigger, c_prev>>
    /\ UNCHANGED <<provVars, fetchVars, histVars>>

\* the except clauses of the loading block: st.error, st.stop
Except(result) ==
    /\ c_state' = "Error"
    /\ c_widgets' = c_widgets \cup {error_widget(result)}
    /\ c_pc' = "end"
    /\ UNCHANGED c_call

\* lines 232-234 and 238: a paginated fetch or fetch_summary
LoadCall ==
    /\ c_pc = "load"
    /\ LoadCalls[c_call] # "fetch_subjects"
    /\ \E result \in Results, ids \in BOOLEAN :
        /\ c_calls' = Append(c_calls, [fn |-> LoadCalls[c_call], result |-> result,
                                       requested |-> TRUE])
        /\ c_ids' = IF result = "ok" /\ LoadCalls[c_call] # "fetch_summary"
                    THEN (c_ids \/ ids) ELSE c_ids
        /\ IF after_call(c_call, result).pc = "except"
           THEN Except(result)
           ELSE /\ c_pc' = after_call(c_call, result).pc
                /\ c_call' = after_call(c_call, result).call
                /\ UNCHANGED <<c_state, c_widgets>>
    /\ UNCHANGED <<c_token, c_page, c_trigger, c_prev>>
    /\ UNCHANGED <<provVars, fetchVars, histVars>>

\* line 236: a["data"]["subject_id"] raises KeyError on an assignment that
\* lacks the key
AllIdsRaises ==
    /\ c_pc = "load"
    /\ LoadCalls[c_call] = "fetch_subjects"
    /\ c_ids
    /\ Except("Exception")
    /\ UNCHANGED <<c_token, c_page, c_ids, c_calls, c_trigger, c_prev>>
    /\ UNCHANGED <<provVars, fetchVars, histVars>>

\* line 237: fetch_subjects returns {} without a request when all_ids is empty
SubjectsCall ==
    /\ c_pc = "load"
    /\ LoadCalls[c_call] = "fetch_subjects"
    /\ \E result \in Results :
        /\ ~c_ids => result = "ok"
        /\ c_calls' = Append(c_calls, [fn |-> LoadCalls[c_call], result |-> result,
                                       requested |-> c_ids])
        /\ IF after_call(c_call, result).pc = "except"
           THEN Except(result)
           ELSE /\ c_pc' = after_call(c_call, result).pc
                /\ c_call' = after_call(c_call, result).call
                /\ UNCHANGED <<c_state, c_widgets>>
    /\ UNCHANGED <<c_token, c_page, c_ids, c_trigger, c_prev>>
    /\ UNCHANGED <<provVars, fetchVars, histVars>>

\* lines 240-241: build_srs_dataframe and build_level_dataframe, inside the
\* try; an exception in them (a stage or level that cannot be a dict key)
\* reaches `except Exception`
Aggregate ==
    /\ c_pc = "aggregate"
    /\ \/ c_pc' = "render" /\ UNCHANGED <<c_state, c_widgets, c_call>>
       \/ c_ids /\ Except("Exception")
    /\ UNCHANGED <<c_token, c_page, c_ids, c_calls, c_trigger, c_prev>>
    /\ UNCHANGED <<provVars, fetchVars, histVars>>

\* lines 249-324: the selected page, then the logout button
Render ==
    /\ c_pc = "render"
    /\ c_state' = "Ready"
    /\ c_pc' = "end"
    /\ \/ c_page = "Dashboard" /\ c_widgets' = c_widgets \cup {"metrics", "charts", "logout"}
       \/ c_page = "Lecons" /\ c_widgets' = c_widgets \cup {"tables", "logout"}
       \/ c_page = "Exercices" /\ c_widgets' = c_widgets \cup {"exercise", "reveal", "logout"}
       \/ c_page = "Exercices" /\ c_widgets' = c_widgets \cup {"exercise_error", "logout"}
    /\ UNCHANGED <<c_token, c_page, c_call, c_ids, c_calls, c_trigger, c_prev>>
    /\ UNCHANGED <<provVars, fetchVars, histVars>>

\* lines 257 and 278-305 are outside any try: build_review_schedule on a
\* summary whose reviews are not a list of blocks, or a subject with an empty
\* "meanings" list, raises; the run ends there, before the logout button
RenderRaises ==
    /\ c_pc = "render"
    /\ c_state' = "Ready"
    /\ c_pc' = "end"
    /\ \/ c_page = "Dashboard" /\ c_widgets' = c_widgets \cup {"metrics", "traceback"}
       \/ c_page = "Lecons" /\ c_ids /\ c_widgets' = c_widgets \cup {"traceback"}
    /\ UNCHANGED <<c_token, c_page, c_call, c_ids, c_calls, c_trigger, c_prev>>
    /\ UNCHANGED <<provVars, fetchVars, histVars>>

\* the "Connexion" button with the text typed into the field (lines 222-225)
SubmitToken ==
    /\ c_pc = "end"
    /\ "form" \in c_widgets
    /\ \E token_input \in TokenInputs :
        IF token_input # <<>>
        THEN c_token' = strip(token_input)
        ELSE c_token' = c_token
    /\ Rerun("submit")
    /\ UNCHANGED c_page
    /\ UNCHANGED <<provVars, fetchVars, histVars>>

\* the sidebar radio (line 209)
SelectPage ==
    /\ c_pc = "end"
    /\ "radio" \in c_widgets
    /\ \E page \in Pages \ {c_page} : c_page' = page
    /\ Rerun("page")
    /\ UNCHANGED c_token
    /\ UNCHANGED <<provVars, fetchVars, histVars>>

\* the "Reveler la reponse" button (line 315)
Reveal ==
    /\ c_pc = "end"
    /\ "reveal" \in c_widgets
    /\ Rerun("reveal")
    /\ UNCHANGED <<c_token, c_page>>
    /\ UNCHANGED <<provVars, fetchVars, histVars>>

\* the "Se deconnecter" button (lines 322-324)
Logout ==
    /\ c_pc = "end"
    /\ "logout" \in c_widgets
    /\ c_token' = <<>>
    /\ Rerun("logout")
    /\ UNCHANGED c_page
    /\ UNCHANGED <<provVars, fetchVars, histVars>>

NextView ==
    \/ ScriptTop
    \/ LoadCall
    \/ AllIdsRaises
    \/ SubjectsCall
    \/ Aggregate
    \/ Render
    \/ RenderRaises
    \/ SubmitToken
    \/ SelectPage
    \/ Reveal
    \/ Logout

SpecView == InitView /\ [][NextView]_vars

-----------------------------------------------------------------------------
(* Claims about the view controller, checked under SpecView *)

\* C7: the logout action is available in the Ready state and in the Error
\* state alike (and taking it empties the token and leads to
\* Unauthenticated): every finished run that ended in Ready or in Error has
\* put the logout button on the page.
C7_LogoutInReadyAndError ==
    (c_pc = "end" /\ c_state \in {"Ready", "Error"}) => "logout" \in c_widgets

\* C8: after a failed load no fetch is issued until a token was submitted
\* through the form again: a run started from the Error view by anything but
\* a submission calls no fetch.
C8_NoFetchAfterErrorUntilSubmit ==
    (c_prev = "Error" /\ c_trigger # "submit" /\ c_pc # "start") => c_calls = <<>>

CallNames == [i \in 1..Len(c_calls) |-> c_calls[i].fn]

\* C9: the view is Ready only after the five fetches (kanji, vocabulary,
\* lessons, subjects, summary) were called in that order and all returned;
\* the calls of a run are always a prefix of that order, a call that failed
\* is the last call of its run and leaves the view in Error, and neither
\* Loading nor Error shows a dashboard widget.
C9_ReadyOnlyAfterAllFetches ==
    /\ Len(c_calls) <= Len(LoadCalls)
    /\ CallNames = SubSeq(LoadCalls, 1, Len(c_calls))
    /\ \A i \in 1..(Len(c_calls) - 1) : c_calls[i].result = "ok"
    /\ c_state = "Ready" =>
          /\ CallNames = LoadCalls
          /\ \A i \in 1..Len(c_calls) : c_calls[i].result = "ok"
    /\ (c_calls # <<>> /\ c_calls[Len(c_calls)].result # "ok") => c_state = "Error"
    /\ c_state \in {"Loading", "Error"} => c_widgets \cap DashboardWidgets = {}

\* C9 witness: the lesson fetch failed after the two assignment fetches had
\* returned data; the run ended in Error with the error message only.
C9_Witness ==
    /\ c_state = "Error"
    /\ c_pc = "end"
    /\ c_ids
    /\ Len(c_calls) = 3
    /\ c_calls[3].result = "HTTPError"
    /\ c_widgets = {"radio", "error_token_invalide"}

=============================================================================
